---- MODULE Spec2Model ----
(***************************************************************************)
(* State-machine model of musicbot/entry.py: playlist entries              *)
(* (URLPlaylistEntry, StreamPlaylistEntry), their download routines run    *)
(* as asyncio tasks, the registry of ready futures, the download folder    *)
(* and the JSON persistence of entries.                                    *)
(*                                                                         *)
(* asyncio is cooperative: a task runs from one await to the next without  *)
(* interleaving, so every action below is one such block of code.          *)
(***************************************************************************)
EXTENDS Integers, Sequences, FiniteSets, TLC

\* Bound on the number of get_ready_future calls (futures created) in a run.
MaxCalls == 3

\* Bound on the get_ready_future calls of a run that also saves and reloads
\* the entry.
MaxCodecCalls == 2

\* Bound on the get_ready_future calls of a run with two entries of one
\* resource.
MaxRaceCalls == 2

\* Bound on the get_ready_future calls of a run in which callers complete
\* futures themselves.
MaxNotifyCalls == 2

\* The two entry objects of a run: e1 is constructed by the playlist, e2 is
\* the object _deserialize builds from the saved record after a restart.
Ids == {"e1", "e2"}

---------------------------------------------------------------------------
\* Strings are sequences of tokens; "-" and "." are the separator tokens.

Range(s) == {s[i] : i \in DOMAIN s}

\* Positions of token sep in s.
Positions(s, sep) == {i \in DOMAIN s : s[i] = sep}

Max(S) == CHOOSE x \in S : \A y \in S : y <= x

Min(S) == CHOOSE x \in S : \A y \in S : x <= y

\* s.split(sep)[0]
SplitFirst(s, sep) ==
    IF Positions(s, sep) = {} THEN s
    ELSE SubSeq(s, 1, Min(Positions(s, sep)) - 1)

\* s.rsplit(sep, 1): a list of two parts, or of one when sep is absent.
RSplit1(s, sep) ==
    IF Positions(s, sep) = {} THEN << s >>
    ELSE LET p == Max(Positions(s, sep))
         IN  << SubSeq(s, 1, p - 1), SubSeq(s, p + 1, Len(s)) >>

\* s.rsplit(sep, 1)[0]
RSplitHead(s, sep) == RSplit1(s, sep)[1]

\* s.rsplit(sep, 1)[-1]
RSplitLast(s, sep) == RSplit1(s, sep)[Len(RSplit1(s, sep))]

\* A path is a directory and a file name; os.path.join and os.path.basename.
PathJoin(d, name) == [dir |-> d, name |-> name]

Basename(path) == path.name

\* Python's None and the empty string as values of the filename attribute.
None == [dir |-> "None", name |-> << >>]

EmptyStr == [dir |-> "", name |-> << >>]

\* bool(x) of a filename value.
Bool(x) == x # None /\ x # EmptyStr

\* playlist.downloader.download_folder
DownloadFolder == "audio_cache"

---------------------------------------------------------------------------
\* File contents: what os.path.getsize and md5sum(f, 8) see of a file.

Contents == {"c0", "c1"}

\* os.path.getsize: c0 is an empty file.
GetSize(c) == IF c = "c0" THEN 0 ELSE 1

\* md5sum(file, 8): the last 8 hex characters of the content's hash.
Md5Sum(c) == IF c = "c0" THEN "d41d8cd9" ELSE "9e107d9d"

\* md5sum(f, 8).join('-.').join(unhashed_fname.rsplit('.', 1))
HashedName(name, h) ==
    LET parts == RSplit1(name, ".")
    IN  IF Len(parts) = 2 THEN parts[1] \o << "-", h, "." >> \o parts[2]
        ELSE parts[1]

\* The expected file names a URL entry is constructed with.
GenericName == << "generic", "-", "t", ".", "m4a" >>

TubeName == << "youtube", "-", "t", ".", "m4a" >>

\* The same name with another extension.
WithExt(name, ext) == RSplitHead(name, ".") \o << ".", ext >>

---------------------------------------------------------------------------
\* Owner objects kept in an entry's meta (a discord channel and a member),
\* and what can stand in their place after deserialization.

ChannelObj == [type |-> "Channel", id |-> "ch1", name |-> "general"]

MemberObj == [type |-> "Member", id |-> "m1", name |-> "alice"]

NoneObj == [type |-> "NoneType", id |-> "", name |-> ""]

StrObj(s) == [type |-> "str", id |-> "", name |-> s]

\* obj.id and obj.name exist (what __json__ reads of every meta object).
HasId(obj) == obj.type \in {"Channel", "Member"}

\* The **meta keyword arguments an entry is constructed with.
Metas ==
    { [k \in D |-> IF k = "channel" THEN ChannelObj ELSE MemberObj] :
        D \in SUBSET {"channel", "author"} }

\* The url of a stream entry, and the url the extractor resolves it to.
StreamUrl == [dir |-> "http", name |-> << "stream" >>]

LiveUrl == [dir |-> "http", name |-> << "live" >>]

MediaUrl == [dir |-> "http", name |-> << "media" >>]

NoEntry ==
    [kind |-> "none", url |-> EmptyStr, expected_filename |-> None,
     direct |-> FALSE, meta |-> << >>]

\* URLPlaylistEntry.__init__ / StreamPlaylistEntry.__init__: the attributes
\* that never change after construction.
URLEntry(expected, meta) ==
    [kind |-> "URL", url |-> MediaUrl,
     expected_filename |-> PathJoin(DownloadFolder, expected),
     direct |-> FALSE, meta |-> meta]

StreamEntry(direct, meta) ==
    [kind |-> "Stream", url |-> StreamUrl, expected_filename |-> None,
     direct |-> direct, meta |-> meta]

\* A constructor that leaves filename None whatever the direct flag.
InitialFilenameNone(cfg) == None

\* BasePlaylistEntry.__init__ sets filename to None; StreamPlaylistEntry
\* overwrites it with the url when direct.
InitialFilename(cfg) ==
    IF cfg.kind = "Stream" /\ cfg.direct THEN cfg.url ELSE None

---------------------------------------------------------------------------
VARIABLES
    config,            \* entry id -> constructed attributes (NoEntry: no object)
    filename,          \* entry id -> self.filename
    is_downloading,    \* entry id -> self._is_downloading
    waiting_futures,   \* entry id -> self._waiting_futures (future ids)
    futures,           \* future id -> [entry, state, value, calls, late]
    tasks,             \* task id -> the _download coroutine given to ensure_future
    ready,             \* the event loop's FIFO queue of tasks due to run a step
    files,             \* file name in the download folder -> content
    folder,            \* the download folder exists
    saved,             \* the record: as __json__ wrote it, then as _deserialize read it
    phase,             \* "first" process, "stopped", "restarted" from the record
    fetch_calls,       \* entry id -> calls of extract_info(download=True)
    probe_calls,       \* entry id -> calls of extract_info(download=False)
    header_calls,      \* entry id -> calls of get_header
    header_failed      \* entry id -> the except clause ran at its last header request

vars ==
    << config, filename, is_downloading, waiting_futures, futures, tasks, ready,
       files, folder, saved, phase, fetch_calls, probe_calls, header_calls,
       header_failed >>

\* The entry objects of the running process.
Alive ==
    CASE phase = "first" -> {e \in Ids : config[e].kind # "none"}
      [] phase = "restarted" -> {e \in {"e2"} : config[e].kind # "none"}
      [] OTHER -> {}

\* BasePlaylistEntry.is_downloaded
IsDownloaded(e) ==
    IF is_downloading[e] THEN FALSE ELSE Bool(filename[e])

\* os.listdir(self.download_folder)
ListDir == DOMAIN files

AddFile(fs, name, c) ==
    [n \in (DOMAIN fs) \cup {name} |-> IF n = name THEN c ELSE fs[n]]

RemoveFile(fs, name) == [n \in (DOMAIN fs) \ {name} |-> fs[n]]

NoFiles == [n \in {} |-> "c0"]

\* Unhashed file names a download folder may hold before the run, for an
\* entry expecting `expected`: the exact name and another extension.
PlainNames(expected) == {expected, WithExt(expected, "webm")}

NoRecord ==
    [kind |-> "none", version |-> 0, url |-> EmptyStr, downloaded |-> FALSE,
     expected_filename |-> None, filename |-> None, direct |-> FALSE,
     meta |-> << >>]

NoResult == [kind |-> "pending", name |-> << >>]

\* What the header request can end with instead of a size: get_header
\* raises, returns None (int(None) raises TypeError), or returns text that
\* is no integer (int raises ValueError).
HeaderFailures == {"error", "None", "text"}

\* A coroutine object created by self._download(), before its first step.
NewTask(e) ==
    [entry |-> e, pc |-> "start", hash |-> FALSE, cand |-> << >>,
     listing |-> {}, result |-> NoResult, outcome |-> ""]

FullMeta == [k \in {"channel", "author"} |-> IF k = "channel" THEN ChannelObj ELSE MemberObj]

\* The entries a playlist constructs: URL entries of the generic and of
\* another extractor, stream entries direct or not.
Configs(metas) ==
    {URLEntry(n, m) : n \in {GenericName, TubeName}, m \in metas}
        \cup {StreamEntry(d, m) : d \in BOOLEAN, m \in metas}

\* The folder before the run: empty, one file left by an earlier run (a
\* file under a hashed name has the content that was hashed), or the
\* expected name together with the same name under another extension.
InitFiles(cfg) ==
    IF cfg.kind # "URL" THEN {NoFiles}
    ELSE LET expected == Basename(cfg.expected_filename)
         IN  {NoFiles}
               \cup {AddFile(NoFiles, n, c) : n \in PlainNames(expected), c \in Contents}
               \cup {AddFile(NoFiles, HashedName(expected, Md5Sum(c)), c) : c \in Contents}
               \cup {AddFile(AddFile(NoFiles, expected, "c1"),
                             WithExt(expected, "webm"), "c1")}

InitWith(metas) ==
    /\ \E cfg \in Configs(metas) :
         /\ config = [e \in Ids |-> IF e = "e1" THEN cfg ELSE NoEntry]
         /\ filename = [e \in Ids |-> IF e = "e1" THEN InitialFilename(cfg) ELSE None]
         /\ files \in InitFiles(cfg)
    /\ folder \in BOOLEAN
    /\ (~folder => files = NoFiles)
    /\ is_downloading = [e \in Ids |-> FALSE]
    /\ waiting_futures = [e \in Ids |-> << >>]
    /\ futures = << >>
    /\ tasks = << >>
    /\ ready = << >>
    /\ saved = NoRecord
    /\ phase = "first"
    /\ fetch_calls = [e \in Ids |-> 0]
    /\ probe_calls = [e \in Ids |-> 0]
    /\ header_calls = [e \in Ids |-> 0]
    /\ header_failed = [e \in Ids |-> FALSE]

Init == InitWith({FullMeta})

\* Two entries the playlist constructed for one resource of the generic
\* extractor: the same url and the same expected file name.
InitRace ==
    /\ config = [e \in Ids |-> URLEntry(GenericName, FullMeta)]
    /\ filename = [e \in Ids |-> None]
    /\ files \in InitFiles(URLEntry(GenericName, FullMeta))
    /\ folder \in BOOLEAN
    /\ (~folder => files = NoFiles)
    /\ is_downloading = [e \in Ids |-> FALSE]
    /\ waiting_futures = [e \in Ids |-> << >>]
    /\ futures = << >>
    /\ tasks = << >>
    /\ ready = << >>
    /\ saved = NoRecord
    /\ phase = "first"
    /\ fetch_calls = [e \in Ids |-> 0]
    /\ probe_calls = [e \in Ids |-> 0]
    /\ header_calls = [e \in Ids |-> 0]
    /\ header_failed = [e \in Ids |-> FALSE]

InitCodec == InitWith(Metas)

---------------------------------------------------------------------------
\* BasePlaylistEntry.get_ready_future, called by any code running on the
\* event loop: the future is resolved at once, or ensure_future queues the
\* first step of a new _download task and the future is registered.

\* asyncio.Future(): state is "pending", "cancelled", "result" or
\* "exception", value the result or the exception's class.  calls counts the
\* callbacks _for_each_future applied to it; late records that an earlier
\* future of the entry had been resolved when this one was requested.
NewFuture(e, state, value) ==
    [entry |-> e, state |-> state, value |-> value, calls |-> 0,
     late |-> \E g \in DOMAIN futures :
                 futures[g].entry = e /\ futures[g].state \in {"result", "exception"}]

\* get_ready_future without the is_downloaded test: every call registers
\* the future and schedules a download.
GetReadyFutureNoTest(e) ==
    /\ e \in Alive
    /\ Len(futures) < MaxCalls
    /\ futures' = Append(futures, NewFuture(e, "pending", ""))
    /\ tasks' = Append(tasks, NewTask(e))
    /\ ready' = Append(ready, Len(tasks) + 1)
    /\ waiting_futures' = [waiting_futures EXCEPT ![e] = Append(@, Len(futures) + 1)]
    /\ UNCHANGED << config, filename, is_downloading, files, folder, saved, phase,
                    fetch_calls, probe_calls, header_calls, header_failed >>

GetReadyFuture(e) ==
    /\ e \in Alive
    /\ Len(futures) < MaxCalls
    /\ IF IsDownloaded(e)
       THEN /\ futures' = Append(futures, NewFuture(e, "result", e))
            /\ UNCHANGED << tasks, ready, waiting_futures >>
       ELSE /\ futures' = Append(futures, NewFuture(e, "pending", ""))
            /\ tasks' = Append(tasks, NewTask(e))
            /\ ready' = Append(ready, Len(tasks) + 1)
            /\ waiting_futures' =
                 [waiting_futures EXCEPT ![e] = Append(@, Len(futures) + 1)]
    /\ UNCHANGED << config, filename, is_downloading, files, folder, saved, phase,
                    fetch_calls, probe_calls, header_calls, header_failed >>

\* asyncio.Future.cancel() by the caller holding the future: only a pending
\* future changes state.
Cancel(f) ==
    /\ futures[f].state = "pending"
    /\ futures' = [futures EXCEPT ![f].state = "cancelled"]
    /\ UNCHANGED << config, filename, is_downloading, waiting_futures, tasks, ready,
                    files, folder, saved, phase, fetch_calls, probe_calls,
                    header_calls, header_failed >>

\* The caller holding a future completes it itself (future.set_result): the
\* one way a registered future that is not cancelled is done before the
\* routine notifies it.
SetResultByHolder(f) ==
    /\ futures[f].state = "pending"
    /\ futures' = [futures EXCEPT ![f].state = "result", ![f].value = "holder"]
    /\ UNCHANGED << config, filename, is_downloading, waiting_futures, tasks, ready,
                    files, folder, saved, phase, fetch_calls, probe_calls,
                    header_calls, header_failed >>

\* cb(future) inside the try of _for_each_future: set_result / set_exception
\* on a future that is already done raises InvalidStateError, which the bare
\* except absorbs.
Callback(fut, state, value) ==
    IF fut.state = "pending"
    THEN [fut EXCEPT !.state = state, !.value = value, !.calls = @ + 1]
    ELSE [fut EXCEPT !.calls = @ + 1]

\* _for_each_future without the cancelled() test: cb is applied to every
\* registered future.
ForEachFutureNoSkip(e, state, value) ==
    [f \in DOMAIN futures |->
        IF f \in Range(waiting_futures[e])
        THEN Callback(futures[f], state, value)
        ELSE futures[f]]

\* _for_each_future without the try: the first cb that raises ends the
\* loop, and the futures registered after it are not reached.
ForEachFutureAborts(e, state, value) ==
    LET reg == waiting_futures[e]
        raising == {i \in DOMAIN reg : futures[reg[i]].state \notin {"pending", "cancelled"}}
        last == IF raising = {} THEN Len(reg) ELSE Min(raising)
    IN  [f \in DOMAIN futures |->
            IF /\ \E i \in 1..last : reg[i] = f
               /\ futures[f].state # "cancelled"
            THEN Callback(futures[f], state, value)
            ELSE futures[f]]

\* BasePlaylistEntry._for_each_future: the futures after cb was applied to
\* every registered future that is not cancelled.
ForEachFuture(e, state, value) ==
    [f \in DOMAIN futures |->
        IF f \in Range(waiting_futures[e]) /\ futures[f].state # "cancelled"
        THEN Callback(futures[f], state, value)
        ELSE futures[f]]

---------------------------------------------------------------------------
\* The end of a coroutine.  outcome: "skipped" by the guard, "ready" when
\* the routine ended normally, else the class of the exception that ended it
\* (caught by _download's except clause, or leaving the coroutine).
Done(task, outcome) ==
    [entry |-> task.entry, pc |-> "done", hash |-> FALSE, cand |-> << >>,
     listing |-> {}, result |-> NoResult, outcome |-> outcome]

\* The event loop runs the step at the head of its queue.
Runs(t, pc) == ready # << >> /\ Head(ready) = t /\ tasks[t].pc = pc

\* URLPlaylistEntry._download from "Trigger ready callbacks" on: the futures
\* get the entry (state "result") or the caught exception (state
\* "exception"), and the finally clause clears _is_downloading.  fname is
\* what self.filename holds when this point is reached, fs the files.
Finish(t, e, fname, state, value, fs) ==
    /\ filename' = [filename EXCEPT ![e] = fname]
    /\ futures' = ForEachFuture(e, state, value)
    /\ waiting_futures' = [waiting_futures EXCEPT ![e] = << >>]
    /\ is_downloading' = [is_downloading EXCEPT ![e] = FALSE]
    /\ tasks' = [tasks EXCEPT ![t] = Done(@, IF state = "result" THEN "ready" ELSE value)]
    /\ ready' = Tail(ready)
    /\ files' = fs
    /\ UNCHANGED << fetch_calls, probe_calls, header_calls >>

\* The coroutine reaches an await with _is_downloading set: of get_header
\* (what = "header"), of extract_info(download=True) ("fetch") or of
\* extract_info(download=False) ("probe").
Suspend(t, e, what, hash, cand, listing) ==
    /\ is_downloading' = [is_downloading EXCEPT ![e] = TRUE]
    /\ tasks' = [tasks EXCEPT ![t] =
                    [entry |-> e, pc |-> what, hash |-> hash, cand |-> cand,
                     listing |-> listing, result |-> NoResult, outcome |-> ""]]
    /\ ready' = Tail(ready)
    /\ header_calls' = [header_calls EXCEPT ![e] = IF what = "header" THEN @ + 1 ELSE @]
    /\ fetch_calls' = [fetch_calls EXCEPT ![e] = IF what = "fetch" THEN @ + 1 ELSE @]
    /\ probe_calls' = [probe_calls EXCEPT ![e] = IF what = "probe" THEN @ + 1 ELSE @]
    /\ UNCHANGED << filename, futures, waiting_futures, files >>

\* The awaited call of task t ends with result r: the loop queues the
\* task's next step.
Wake(t, pc, r) ==
    /\ tasks' = [tasks EXCEPT ![t].pc = pc, ![t].result = r]
    /\ ready' = Append(ready, t)

\* The generic branch of URLPlaylistEntry._download up to its first await.
GenericBranch(t, e, base) ==
    LET parts == RSplit1(base, ".")
        matches == {f \in ListDir : RSplitHead(f, "-") = parts[1]}
    IN  IF Len(parts) # 2
        THEN \* the two-name unpacking of rsplit('.', 1) raises ValueError
             Finish(t, e, filename[e], "exception", "ValueError", files)
        ELSE IF matches # {}
        THEN \* flistdir.index picks the first match in listdir order
             \E cand \in matches : Suspend(t, e, "header", FALSE, cand, ListDir)
        ELSE Suspend(t, e, "fetch", TRUE, << >>, {})

\* The same branch with the two cache tests in the other order: a file
\* sharing the name without extension is taken before the exact name.
PlainBranchDriftFirst(t, e, base) ==
    LET noex == RSplitHead(base, ".")
        matches == {f \in ListDir : RSplitHead(f, ".") = noex}
    IN  IF matches # {}
        THEN \E f \in matches :
                Finish(t, e, PathJoin(DownloadFolder, f), "result", e, files)
        ELSE IF base \in ListDir
        THEN Finish(t, e, PathJoin(DownloadFolder, base), "result", e, files)
        ELSE Suspend(t, e, "fetch", FALSE, << >>, {})

\* The branch of URLPlaylistEntry._download for every other extractor.
PlainBranch(t, e, base) ==
    LET noex == RSplitHead(base, ".")
        matches == {f \in ListDir : RSplitHead(f, ".") = noex}
    IN  IF base \in ListDir
        THEN Finish(t, e, PathJoin(DownloadFolder, base), "result", e, files)
        ELSE IF matches # {}
        THEN \E f \in matches :
                Finish(t, e, PathJoin(DownloadFolder, f), "result", e, files)
        ELSE Suspend(t, e, "fetch", FALSE, << >>, {})

\* The re-entrancy guard of URLPlaylistEntry._download: the coroutine returns
\* at once when the entry is downloading.
GuardReturns(e) == is_downloading[e]

\* First step of a task running URLPlaylistEntry._download: from the guard
\* to the first await, or to the end when nothing is awaited.
URLDownloadStart(t) ==
    LET e == tasks[t].entry
        base == Basename(config[e].expected_filename)
        extractor == SplitFirst(base, "-")
    IN  /\ Runs(t, "start")
        /\ config[e].kind = "URL"
        /\ IF GuardReturns(e)
           THEN /\ tasks' = [tasks EXCEPT ![t] = Done(@, "skipped")]
                /\ ready' = Tail(ready)
                /\ UNCHANGED << filename, is_downloading, waiting_futures, futures,
                                files, folder, fetch_calls, probe_calls, header_calls >>
           ELSE /\ folder' = TRUE
                /\ IF extractor = << "generic" >>
                   THEN GenericBranch(t, e, base)
                   ELSE PlainBranch(t, e, base)
        /\ UNCHANGED << config, saved, phase, header_failed >>

\* What await get_header(..., 'CONTENT-LENGTH') can end with: the text of a
\* size, or a failure.
HeaderOutcomes == {"0", "1"} \cup HeaderFailures

\* The except clause treating every failure as size 1.
RemoteSizeFailureIsOne(r) == IF r = "0" THEN 0 ELSE 1

\* rsize: int() of the header's text, or the 0 of the except clause.
RemoteSize(r) == IF r = "1" THEN 1 ELSE 0

\* get_header ends.
GetHeaderReturns(t) ==
    /\ tasks[t].pc = "header"
    /\ \E r \in HeaderOutcomes : Wake(t, "headed", [kind |-> r, name |-> << >>])
    /\ UNCHANGED << config, filename, is_downloading, waiting_futures, futures,
                    files, folder, saved, phase, fetch_calls, probe_calls,
                    header_calls, header_failed >>

\* The step after get_header without the size comparison: the candidate is
\* reused whatever its size.
URLAfterHeaderNoCompare(t) ==
    LET e == tasks[t].entry
        second == IF ListDir = tasks[t].listing
                  THEN {tasks[t].cand}
                  ELSE ListDir \cup {<< >>}
    IN  /\ Runs(t, "headed")
        /\ \E lfile \in second :
              IF lfile = << >>
              THEN Finish(t, e, filename[e], "exception", "IndexError", files)
              ELSE Finish(t, e, PathJoin(DownloadFolder, lfile), "result", e, files)
        /\ header_failed' =
             [header_failed EXCEPT ![e] = tasks[t].result.kind \in HeaderFailures]
        /\ UNCHANGED << config, saved, phase, folder >>

\* The task resumes after get_header: the size comparison of the generic
\* branch.  The index found in the first listing is applied to a second
\* os.listdir: when the folder changed meanwhile it can name any file, or
\* none (IndexError).
URLAfterHeader(t) ==
    LET e == tasks[t].entry
        second == IF ListDir = tasks[t].listing
                  THEN {tasks[t].cand}
                  ELSE ListDir \cup {<< >>}
    IN  /\ Runs(t, "headed")
        /\ \E lfile \in second :
              IF lfile = << >>
              THEN Finish(t, e, filename[e], "exception", "IndexError", files)
              ELSE IF GetSize(files[lfile]) # RemoteSize(tasks[t].result.kind)
              THEN Suspend(t, e, "fetch", TRUE, << >>, {})
              ELSE Finish(t, e, PathJoin(DownloadFolder, lfile), "result", e, files)
        /\ header_failed' =
             [header_failed EXCEPT ![e] = tasks[t].result.kind \in HeaderFailures]
        /\ UNCHANGED << config, saved, phase, folder >>

\* ytdl.prepare_filename(result): the playlist computed expected_filename
\* with the same call on the same info, so the extractor names the file so.
PreparedName(e) == Basename(config[e].expected_filename)

\* extract_info(download=True) ends in the executor: it raises, returns None,
\* or has written the file it names.
ExtractInfoDownload(t) ==
    LET e == tasks[t].entry
    IN  /\ tasks[t].pc = "fetch"
        /\ \/ /\ \E k \in {"raise", "null"} :
                    Wake(t, "fetched", [kind |-> k, name |-> << >>])
              /\ files' = files
           \/ \E c \in Contents :
                /\ Wake(t, "fetched", [kind |-> "ok", name |-> PreparedName(e)])
                /\ files' = AddFile(files, PreparedName(e), c)
        /\ UNCHANGED << config, filename, is_downloading, waiting_futures, futures,
                        folder, saved, phase, fetch_calls, probe_calls, header_calls, header_failed >>

\* The task resumes after extract_info in _really_download, and runs on
\* through the rest of _download.  os.unlink / os.rename can raise OSError.
URLAfterFetch(t) ==
    LET e == tasks[t].entry
        r == tasks[t].result
        unhashed == r.name
    IN  /\ Runs(t, "fetched")
        /\ IF r.kind # "ok"
           THEN Finish(t, e, filename[e], "exception", "ExtractionError", files)
           ELSE IF ~tasks[t].hash
           THEN Finish(t, e, PathJoin(DownloadFolder, unhashed), "result", e, files)
           ELSE IF unhashed \notin DOMAIN files
           THEN \* md5sum cannot open the file
                Finish(t, e, PathJoin(DownloadFolder, unhashed),
                       "exception", "FileNotFoundError", files)
           ELSE LET hashed == HashedName(unhashed, Md5Sum(files[unhashed]))
                IN  \E oserror \in BOOLEAN :
                      IF oserror
                      THEN Finish(t, e, PathJoin(DownloadFolder, hashed),
                                  "exception", "OSError", files)
                      ELSE IF hashed \in DOMAIN files
                      THEN Finish(t, e, PathJoin(DownloadFolder, hashed), "result", e,
                                  RemoveFile(files, unhashed))
                      ELSE Finish(t, e, PathJoin(DownloadFolder, hashed), "result", e,
                                  AddFile(RemoveFile(files, unhashed), hashed,
                                          files[unhashed]))
        /\ UNCHANGED << config, saved, phase, folder, header_failed >>

---------------------------------------------------------------------------
\* First step of a task running StreamPlaylistEntry._download: the flag is
\* set and extract_info(download=False) is awaited.
StreamDownloadStart(t) ==
    LET e == tasks[t].entry
    IN  /\ Runs(t, "start")
        /\ config[e].kind = "Stream"
        /\ Suspend(t, e, "probe", FALSE, << >>, {})
        /\ UNCHANGED << config, saved, phase, folder, header_failed >>

\* extract_info(download=False) ends: it raises, returns None, or returns
\* the info dict with the resolved url.
ExtractInfoProbe(t) ==
    /\ tasks[t].pc = "probe"
    /\ \E k \in {"raise", "null", "ok"} : Wake(t, "probed", [kind |-> k, name |-> << >>])
    /\ UNCHANGED << config, filename, is_downloading, waiting_futures, futures,
                    files, folder, saved, phase, fetch_calls, probe_calls,
                    header_calls, header_failed >>

\* The task resumes after extract_info in StreamPlaylistEntry._download:
\* except (ExtractionError leaves the coroutine), else (result['url'], a
\* TypeError on None), finally.
StreamAfterProbe(t) ==
    LET e == tasks[t].entry
        r == tasks[t].result
    IN  /\ Runs(t, "probed")
        /\ filename' = [filename EXCEPT ![e] = IF r.kind = "ok" THEN LiveUrl ELSE @]
        /\ tasks' = [tasks EXCEPT ![t] =
                        Done(@, CASE r.kind = "raise" -> "ExtractionError"
                                  [] r.kind = "null" -> "TypeError"
                                  [] OTHER -> "ready")]
        /\ ready' = Tail(ready)
        /\ is_downloading' = [is_downloading EXCEPT ![e] = FALSE]
        /\ UNCHANGED << config, waiting_futures, futures, files, folder, saved,
                        phase, fetch_calls, probe_calls, header_calls, header_failed >>

---------------------------------------------------------------------------
\* Persistence.

\* The meta block both __json__ methods write: type, id and name per object.
MetaJson(meta) ==
    [k \in DOMAIN meta |->
        [type |-> meta[k].type, id |-> meta[k].id, name |-> meta[k].name]]

\* __json__ writing expected_filename in the filename field.
URLJsonExpected(e) ==
    [kind |-> "URL", version |-> 1, url |-> config[e].url,
     downloaded |-> IsDownloaded(e),
     expected_filename |-> config[e].expected_filename,
     filename |-> config[e].expected_filename, direct |-> FALSE,
     meta |-> MetaJson(config[e].meta)]

\* URLPlaylistEntry.__json__ (the record inside _enclose_json's envelope,
\* whose class tag is the kind field).  title and duration are copied
\* through and left out.
URLJson(e) ==
    [kind |-> "URL", version |-> 1, url |-> config[e].url,
     downloaded |-> IsDownloaded(e),
     expected_filename |-> config[e].expected_filename,
     filename |-> filename[e], direct |-> FALSE,
     meta |-> MetaJson(config[e].meta)]

\* StreamPlaylistEntry.__json__: no downloaded, filename or
\* expected_filename key (the fields hold the values of NoRecord).
StreamJson(e) ==
    [kind |-> "Stream", version |-> 1, url |-> config[e].url,
     downloaded |-> FALSE, expected_filename |-> None, filename |-> None,
     direct |-> config[e].direct, meta |-> MetaJson(config[e].meta)]

\* A future of the process that ended.
Gone(fut) ==
    [entry |-> fut.entry, state |-> "gone", value |-> "", calls |-> 0, late |-> FALSE]

\* The entry is serialized and the process ends: the record is the last one
\* written before the restart, the tasks and futures of the process are
\* gone.  obj.id raises AttributeError on a meta value that is None or a
\* str, and then nothing is written.
SaveAndStop(e) ==
    /\ phase = "first"
    /\ e \in Alive
    /\ \A k \in DOMAIN config[e].meta : HasId(config[e].meta[k])
    /\ saved' = IF config[e].kind = "URL" THEN URLJson(e) ELSE StreamJson(e)
    /\ phase' = "stopped"
    /\ tasks' = << >>
    /\ ready' = << >>
    /\ futures' = [f \in DOMAIN futures |-> Gone(futures[f])]
    /\ waiting_futures' = [x \in Ids |-> << >>]
    /\ UNCHANGED << config, filename, is_downloading, files, folder,
                    fetch_calls, probe_calls, header_calls, header_failed >>

\* playlist.bot.get_channel(id) and channel.server.get_member(id): the live
\* object, or None when the id is not known (found = FALSE).
GetChannel(id, found) == IF found /\ id = ChannelObj.id THEN ChannelObj ELSE NoneObj

GetMember(id, found) == IF found /\ id = MemberObj.id THEN MemberObj ELSE NoneObj

\* An entry object as _deserialize returns it; Nothing stands for the None
\* returned after log.error.
Object(cfg, fname, downloading) ==
    [config |-> cfg, filename |-> fname, is_downloading |-> downloading]

Nothing == Object(NoEntry, None, FALSE)

\* _deserialize without the downloaded test: the filename field is taken
\* as it is.
URLDeserializeKeepsFilename(data, chFound, auFound) ==
    LET hasCh == "channel" \in DOMAIN data.meta
        hasAu == "author" \in DOMAIN data.meta
        channel == GetChannel(data.meta["channel"].id, chFound)
        author == GetMember(data.meta["author"].id, auFound)
        meta == [k \in DOMAIN data.meta \cap {"channel", "author"} |->
                    IF k = "channel" THEN channel ELSE author]
    IN  IF hasAu /\ (~hasCh \/ channel = NoneObj)
        THEN Nothing
        ELSE Object([kind |-> "URL", url |-> data.url,
                     expected_filename |-> data.expected_filename,
                     direct |-> FALSE, meta |-> meta], data.filename, FALSE)

\* URLPlaylistEntry._deserialize
URLDeserialize(data, chFound, auFound) ==
    LET fname == IF data.downloaded THEN data.filename ELSE None
        hasCh == "channel" \in DOMAIN data.meta
        hasAu == "author" \in DOMAIN data.meta
        channel == GetChannel(data.meta["channel"].id, chFound)
        author == GetMember(data.meta["author"].id, auFound)
        meta == [k \in DOMAIN data.meta \cap {"channel", "author"} |->
                    IF k = "channel" THEN channel ELSE author]
    IN  IF hasAu /\ ~hasCh
        THEN Nothing     \* meta['channel']: KeyError
        ELSE IF hasAu /\ channel = NoneObj
        THEN Nothing     \* None.server: AttributeError
        ELSE Object([kind |-> "URL", url |-> data.url,
                     expected_filename |-> data.expected_filename,
                     direct |-> FALSE, meta |-> meta], fname, FALSE)

\* StreamPlaylistEntry._deserialize
StreamDeserialize(data, chFound, auFound) ==
    LET hasCh == "channel" \in DOMAIN data.meta
        hasAu == "author" \in DOMAIN data.meta
        ch == GetChannel(data.meta["channel"].id, chFound)
        channel == IF ch # NoneObj THEN ch ELSE StrObj(data.meta["channel"].name)
        author == GetMember(data.meta["author"].id, auFound)
        meta == [k \in DOMAIN data.meta \cap {"channel", "author"} |->
                    IF k = "channel" THEN channel ELSE author]
        cfg == [kind |-> "Stream", url |-> data.url, expected_filename |-> None,
                direct |-> data.direct, meta |-> meta]
    IN  IF hasAu /\ ~hasCh
        THEN Nothing     \* meta['channel']: KeyError
        ELSE IF hasAu /\ channel.type = "str"
        THEN Nothing     \* str.server: AttributeError
        ELSE Object(cfg, InitialFilename(cfg), FALSE)

\* _deserialize of the class the record's envelope names.
Deserialized(data, chFound, auFound) ==
    IF data.kind = "URL"
    THEN URLDeserialize(data, chFound, auFound)
    ELSE StreamDeserialize(data, chFound, auFound)

\* The version field of a record _deserialize may be given: 1 is what
\* __json__ writes, 2 stands for any later release of the codec.
Versions == {1, 2}

\* After the restart the record is deserialized: the one this codec saved,
\* or the same fields under the version of a later release, with a resolver
\* that finds the channel (chFound) and the member (auFound) or not; the
\* object returned, if any, is e2.
Deserialize ==
    /\ phase = "stopped"
    /\ phase' = "restarted"
    /\ \E v \in Versions, chFound \in BOOLEAN, auFound \in BOOLEAN :
         LET data == [saved EXCEPT !.version = v]
             obj == Deserialized(data, chFound, auFound)
         IN  /\ saved' = data
             /\ config' = [config EXCEPT !["e2"] = obj.config]
             /\ filename' = [filename EXCEPT !["e2"] = obj.filename]
             /\ is_downloading' = [is_downloading EXCEPT !["e2"] = obj.is_downloading]
    /\ UNCHANGED << waiting_futures, futures, tasks, ready, files, folder,
                    fetch_calls, probe_calls, header_calls, header_failed >>

---------------------------------------------------------------------------
Next ==
    \/ \E e \in Ids : GetReadyFuture(e)
    \/ \E f \in DOMAIN futures : Cancel(f)
    \/ \E t \in DOMAIN tasks : URLDownloadStart(t)
    \/ \E t \in DOMAIN tasks : GetHeaderReturns(t)
    \/ \E t \in DOMAIN tasks : URLAfterHeader(t)
    \/ \E t \in DOMAIN tasks : ExtractInfoDownload(t)
    \/ \E t \in DOMAIN tasks : URLAfterFetch(t)
    \/ \E t \in DOMAIN tasks : StreamDownloadStart(t)
    \/ \E t \in DOMAIN tasks : ExtractInfoProbe(t)
    \/ \E t \in DOMAIN tasks : StreamAfterProbe(t)

Spec == Init /\ [][Next]_vars

\* A run that saves the entry, restarts and reloads it.
CodecGetReadyFuture(e) ==
    /\ Len(futures) < MaxCodecCalls
    /\ GetReadyFuture(e)

NextCodec ==
    \/ \E e \in Ids : CodecGetReadyFuture(e)
    \/ \E f \in DOMAIN futures : Cancel(f)
    \/ \E t \in DOMAIN tasks : URLDownloadStart(t)
    \/ \E t \in DOMAIN tasks : GetHeaderReturns(t)
    \/ \E t \in DOMAIN tasks : URLAfterHeader(t)
    \/ \E t \in DOMAIN tasks : ExtractInfoDownload(t)
    \/ \E t \in DOMAIN tasks : URLAfterFetch(t)
    \/ \E t \in DOMAIN tasks : StreamDownloadStart(t)
    \/ \E t \in DOMAIN tasks : ExtractInfoProbe(t)
    \/ \E t \in DOMAIN tasks : StreamAfterProbe(t)
    \/ \E e \in Ids : SaveAndStop(e)
    \/ Deserialize

SpecCodec == InitCodec /\ [][NextCodec]_vars

\* A run of two entries for the same resource.
RaceGetReadyFuture(e) ==
    /\ Len(futures) < MaxRaceCalls
    /\ GetReadyFuture(e)

NextRace ==
    \/ \E e \in Ids : RaceGetReadyFuture(e)
    \/ \E f \in DOMAIN futures : Cancel(f)
    \/ \E t \in DOMAIN tasks : URLDownloadStart(t)
    \/ \E t \in DOMAIN tasks : GetHeaderReturns(t)
    \/ \E t \in DOMAIN tasks : URLAfterHeader(t)
    \/ \E t \in DOMAIN tasks : ExtractInfoDownload(t)
    \/ \E t \in DOMAIN tasks : URLAfterFetch(t)

SpecRace == InitRace /\ [][NextRace]_vars

\* A run in which the callers may complete the futures they hold.
NotifyGetReadyFuture(e) ==
    /\ Len(futures) < MaxNotifyCalls
    /\ GetReadyFuture(e)

NextNotify ==
    \/ \E e \in Ids : NotifyGetReadyFuture(e)
    \/ \E f \in DOMAIN futures : Cancel(f)
    \/ \E f \in DOMAIN futures : SetResultByHolder(f)
    \/ \E t \in DOMAIN tasks : URLDownloadStart(t)
    \/ \E t \in DOMAIN tasks : GetHeaderReturns(t)
    \/ \E t \in DOMAIN tasks : URLAfterHeader(t)
    \/ \E t \in DOMAIN tasks : ExtractInfoDownload(t)
    \/ \E t \in DOMAIN tasks : URLAfterFetch(t)
    \/ \E t \in DOMAIN tasks : StreamDownloadStart(t)
    \/ \E t \in DOMAIN tasks : ExtractInfoProbe(t)
    \/ \E t \in DOMAIN tasks : StreamAfterProbe(t)

SpecNotify == Init /\ [][NextNotify]_vars

---------------------------------------------------------------------------
\* Properties.

\* The tasks of entry e inside the body of _download: past the first
\* statements (the guard, where there is one) and not yet ended.
ActiveRoutines(e) ==
    {t \in DOMAIN tasks : tasks[t].entry = e /\ tasks[t].pc \notin {"start", "done"}}

\* C1: for every entry of either variant, at most one download routine is
\* active at any instant.
C1_SingleFlight == \A e \in Ids : Cardinality(ActiveRoutines(e)) <= 1

\* The same for URL entries alone, whose _download has the guard.
URLSingleFlight ==
    \A e \in Ids : config[e].kind = "URL" => Cardinality(ActiveRoutines(e)) <= 1

\* C2: for a URL entry, get_ready_future calls that were all issued before
\* any future was resolved cause at most one extract_info(download=True).
C2_OneFetch ==
    \A e \in Alive :
        (/\ config[e].kind = "URL"
         /\ \A f \in DOMAIN futures : futures[f].entry = e => ~futures[f].late)
        => fetch_calls[e] <= 1

\* C3: once every download routine has ended, no future returned by
\* get_ready_future is still pending.
C3_ResolvedWhenIdle ==
    (\A t \in DOMAIN tasks : tasks[t].pc = "done")
        => \A f \in DOMAIN futures : futures[f].state # "pending"

\* The same for the futures of URL entries alone.
URLResolvedWhenIdle ==
    (\A t \in DOMAIN tasks : tasks[t].pc = "done")
        => \A f \in DOMAIN futures :
              config[futures[f].entry].kind = "URL" => futures[f].state # "pending"

\* Task t's routine ends in this step after extract_info raised or
\* returned None.
ExtractorFailureEnds(t) ==
    /\ t \in DOMAIN tasks'
    /\ tasks[t].pc \in {"fetched", "probed"}
    /\ tasks[t].result.kind \in {"raise", "null"}
    /\ tasks'[t].pc = "done"

\* What C4 asks of such a step for the task's entry e.
FailureNotified(e) ==
    /\ \A f \in Range(waiting_futures[e]) :
          futures[f].state # "cancelled"
            => futures'[f].state = "exception" /\ futures'[f].value = "ExtractionError"
    /\ waiting_futures'[e] = << >>
    /\ ~is_downloading'[e]

\* C4: when a download routine of either variant fails because the extractor
\* raised or returned None, every registered future that is not cancelled
\* gets an ExtractionError, the registry is emptied and the entry is no
\* longer downloading.
C4_FailureNotifies ==
    [][\A t \in DOMAIN tasks :
          ExtractorFailureEnds(t) => FailureNotified(tasks[t].entry)]_vars

\* The same for URL entries alone.
URLFailureNotifies ==
    [][\A t \in DOMAIN tasks :
          (ExtractorFailureEnds(t) /\ config[tasks[t].entry].kind = "URL")
            => FailureNotified(tasks[t].entry)]_vars

\* Task t's routine ends in this step: in failure, or normally.
FailureEnds(t) ==
    /\ t \in DOMAIN tasks'
    /\ tasks[t].pc # "done"
    /\ tasks'[t].pc = "done"
    /\ tasks'[t].outcome \notin {"ready", "skipped"}

SuccessEnds(t) ==
    /\ t \in DOMAIN tasks'
    /\ tasks[t].pc # "done"
    /\ tasks'[t].pc = "done"
    /\ tasks'[t].outcome = "ready"

\* C5: after a download routine of a URL entry ends in failure, at whatever
\* step, the entry is PENDING: not downloading and without a filename.
C5_FailureBackToPending ==
    [][\A t \in DOMAIN tasks :
          (FailureEnds(t) /\ config[tasks[t].entry].kind = "URL")
            => /\ ~is_downloading'[tasks[t].entry]
               /\ filename'[tasks[t].entry] = None]_vars

\* A step that is a get_ready_future call on entry e: the only steps that
\* create a future.
Requested(e) ==
    /\ Len(futures') = Len(futures) + 1
    /\ futures'[Len(futures')].entry = e

\* C6: get_ready_future on an entry that is READY returns a future already
\* resolved with the entry, and changes nothing else: no registration, no
\* task, no extractor, header or file operation.
C6_ReadyIsImmediate ==
    [][\A e \in Ids :
          (IsDownloaded(e) /\ Requested(e))
            => /\ futures'[Len(futures')].state = "result"
               /\ futures'[Len(futures')].value = e
               /\ \A f \in DOMAIN futures : futures'[f] = futures[f]
               /\ UNCHANGED << config, filename, is_downloading, waiting_futures,
                               tasks, ready, files, folder, saved, phase,
                               fetch_calls, probe_calls, header_calls, header_failed >>]_vars

\* A URL entry made READY by a fetch, and a future requested after that:
\* resolved at the call, no callback ever ran on it.
C6_Witness ==
    \E f \in DOMAIN futures :
        /\ futures[f].state = "result"
        /\ futures[f].calls = 0
        /\ futures[f].value = futures[f].entry
        /\ config[futures[f].entry].kind = "URL"
        /\ fetch_calls[futures[f].entry] = 1
        /\ IsDownloaded(futures[f].entry)

\* C7: when a download of a URL entry completes successfully, every
\* registered future that is not cancelled is resolved with the entry, by
\* exactly one callback; every cancelled one is left as it is; the registry
\* is empty afterwards.  No future ever receives a second callback.
C7_FanOut ==
    /\ [][\A t \in DOMAIN tasks :
            (SuccessEnds(t) /\ config[tasks[t].entry].kind = "URL")
              => LET e == tasks[t].entry
                 IN  /\ \A f \in Range(waiting_futures[e]) :
                           IF futures[f].state = "cancelled"
                           THEN futures'[f] = futures[f]
                           ELSE /\ futures'[f].state = "result"
                                /\ futures'[f].value = e
                                /\ futures'[f].calls = 1
                     /\ waiting_futures'[e] = << >>]_vars
    /\ [](\A f \in DOMAIN futures : futures[f].calls <= 1)

\* Three futures of a URL entry served by one successful routine: one was
\* cancelled before and got no callback, two got the entry.
C7_Witness ==
    /\ Len(futures) = 3
    /\ config["e1"].kind = "URL"
    /\ waiting_futures["e1"] = << >>
    /\ Cardinality({t \in DOMAIN tasks : tasks[t].outcome = "ready"}) = 1
    /\ Cardinality({t \in DOMAIN tasks : tasks[t].outcome = "skipped"}) = 2
    /\ Cardinality({f \in DOMAIN futures :
                      futures[f].state = "cancelled" /\ futures[f].calls = 0}) = 1
    /\ Cardinality({f \in DOMAIN futures :
                      /\ futures[f].state = "result"
                      /\ futures[f].value = "e1"
                      /\ futures[f].calls = 1}) = 2

\* The owners a record names can be resolved: the channel is found, and the
\* author is found through it.
Resolvable(data) ==
    "author" \in DOMAIN data.meta => "channel" \in DOMAIN data.meta

\* Entry e2 as _deserialize returned it: no get_ready_future call yet.
Fresh(e) == \A f \in DOMAIN futures : futures[f].entry # e

\* C8: a READY URL entry that is serialized and deserialized, its owners
\* resolvable, gives an entry that is READY with the same filename; and
\* get_ready_future calls on that entry never start a download.
C8_RoundTrip ==
    /\ (phase = "stopped" /\ config["e1"].kind = "URL" /\ IsDownloaded("e1")
            /\ Resolvable(saved))
         => LET obj == Deserialized(saved, TRUE, TRUE)
            IN  /\ obj.config.kind = "URL"
                /\ ~obj.is_downloading
                /\ Bool(obj.filename)
                /\ obj.filename = filename["e1"]
    /\ (phase = "restarted" /\ config["e1"].kind = "URL" /\ IsDownloaded("e1")
            /\ config["e2"].kind # "none")
         => /\ config["e2"].kind = "URL"
            /\ IsDownloaded("e2")
            /\ filename["e2"] = filename["e1"]
            /\ \A t \in DOMAIN tasks : tasks[t].entry # "e2"
            /\ waiting_futures["e2"] = << >>
            /\ fetch_calls["e2"] = 0 /\ header_calls["e2"] = 0
            /\ \A f \in DOMAIN futures :
                  futures[f].entry = "e2" => futures[f].state = "result"

\* A URL entry fetched, saved READY and reloaded with both owners found, and
\* a future requested of the reloaded entry.
C8_Witness ==
    /\ phase = "restarted"
    /\ config["e1"].kind = "URL"
    /\ fetch_calls["e1"] = 1
    /\ IsDownloaded("e1")
    /\ config["e2"].kind = "URL"
    /\ config["e2"].meta = FullMeta
    /\ \E f \in DOMAIN futures : futures[f].entry = "e2"

\* C9: every entry _deserialize produces is not downloading, and has a
\* filename only if the entry was READY when the record was written; a
\* record written while the entry was DOWNLOADING, whatever its filename
\* field, restores to PENDING.
C9_RestoredState ==
    /\ phase = "stopped"
         => \A chFound \in BOOLEAN, auFound \in BOOLEAN :
              LET obj == Deserialized(saved, chFound, auFound)
              IN  obj # Nothing
                    => /\ ~obj.is_downloading
                       /\ Bool(obj.filename) => IsDownloaded("e1")
                       /\ is_downloading["e1"] => obj.filename = None
    /\ (phase = "restarted" /\ config["e2"].kind # "none" /\ Fresh("e2"))
         => /\ ~is_downloading["e2"]
            /\ Bool(filename["e2"]) => IsDownloaded("e1")
            /\ is_downloading["e1"] => filename["e2"] = None

\* A URL entry saved while DOWNLOADING with a filename already set, and the
\* entry reloaded from that record.
C9_Witness ==
    /\ phase = "restarted"
    /\ config["e1"].kind = "URL"
    /\ is_downloading["e1"]
    /\ Bool(filename["e1"])
    /\ Bool(saved.filename)
    /\ config["e2"].kind = "URL"
    /\ Fresh("e2")
    /\ filename["e2"] = None

\* C10: no entry is ever constructed with an unresolved owner in its meta:
\* a record whose channel id or author id the resolver does not find yields
\* no entry.
C10_NoUnresolvedOwner ==
    \A e \in Ids : \A k \in DOMAIN config[e].meta : HasId(config[e].meta[k])

\* C11: a record whose version is not the one the codec writes (1) is
\* skipped: _deserialize produces no entry from it.
C11_UnknownVersionSkipped ==
    (phase = "restarted" /\ saved.version # 1) => config["e2"].kind = "none"

\* Task t, at the head of the loop's queue, takes the first step of
\* _download on a URL entry and passes the guard.
BodyStarts(t) ==
    /\ Runs(t, "start")
    /\ config[tasks[t].entry].kind = "URL"
    /\ ~is_downloading[tasks[t].entry]
    /\ tasks'[t] # tasks[t]

\* The extractor id of a URL entry is "generic".
IsGeneric(e) ==
    SplitFirst(Basename(config[e].expected_filename), "-") = << "generic" >>

\* The files of the folder with the expected name's base and another
\* extension.
Drifted(base) ==
    {f \in ListDir : f # base /\ RSplitHead(f, ".") = RSplitHead(base, ".")}

\* C12: the download routine of a URL entry whose extractor is not generic
\* takes the file with the exact expected name when the folder has it, with
\* no fetch; else a file with the same base name and another extension, with
\* no fetch; else it makes one fetch without hashing, after which the
\* filename is the path the extractor prepared and no file is renamed.
C12_PlainCache ==
    /\ [][\A t \in DOMAIN tasks :
            (BodyStarts(t) /\ ~IsGeneric(tasks[t].entry))
              => LET e == tasks[t].entry
                     base == Basename(config[e].expected_filename)
                 IN  IF base \in ListDir
                     THEN /\ fetch_calls' = fetch_calls
                          /\ tasks'[t].outcome = "ready"
                          /\ filename'[e] = PathJoin(DownloadFolder, base)
                     ELSE IF Drifted(base) # {}
                     THEN /\ fetch_calls' = fetch_calls
                          /\ tasks'[t].outcome = "ready"
                          /\ filename'[e].dir = DownloadFolder
                          /\ filename'[e].name \in Drifted(base)
                     ELSE /\ fetch_calls'[e] = fetch_calls[e] + 1
                          /\ tasks'[t].pc = "fetch"
                          /\ ~tasks'[t].hash]_vars
    /\ [][\A t \in DOMAIN tasks :
            (Runs(t, "fetched") /\ ~tasks[t].hash /\ tasks'[t] # tasks[t])
              => LET e == tasks[t].entry
                 IN  /\ tasks'[t].pc = "done"
                     /\ fetch_calls' = fetch_calls
                     /\ files' = files
                     /\ tasks[t].result.kind = "ok"
                          => /\ tasks'[t].outcome = "ready"
                             /\ filename'[e] = PathJoin(DownloadFolder, PreparedName(e))]_vars

\* A youtube entry made READY by its routine without a fetch, on the exact
\* name, in a folder that also holds the name under another extension.
C12_Witness ==
    /\ config["e1"].kind = "URL"
    /\ ~IsGeneric("e1")
    /\ IsDownloaded("e1")
    /\ filename["e1"] = config["e1"].expected_filename
    /\ fetch_calls["e1"] = 0
    /\ WithExt(Basename(config["e1"].expected_filename), "webm") \in ListDir
    /\ \E t \in DOMAIN tasks : tasks[t].outcome = "ready"
    /\ \E f \in DOMAIN futures : futures[f].state = "result" /\ futures[f].calls = 1

\* The files of the folder that are cached candidates for the expected
\* name: the name without its part after the last "-" is the expected name
\* without extension.
Candidates(base) ==
    {f \in ListDir : RSplitHead(f, "-") = RSplitHead(base, ".")}

\* The size a CONTENT-LENGTH header declares.
ProbedSize(k) == IF k = "1" THEN 1 ELSE 0

\* name is <base>-<8 hex characters>.<ext> for the prepared name base.ext.
HasHashedForm(name, prepared) ==
    LET parts == RSplit1(name, ".")
    IN  /\ Len(parts) = 2
        /\ parts[2] = RSplitLast(prepared, ".")
        /\ Positions(parts[1], "-") # {}
        /\ RSplitHead(parts[1], "-") = RSplitHead(prepared, ".")
        /\ Len(RSplitLast(parts[1], "-")) = 1
        /\ RSplitLast(parts[1], "-")[1] \in {Md5Sum(c) : c \in Contents}
        /\ Len(RSplitLast(parts[1], "-")[1]) = 8

\* C13: the download routine of a generic URL entry fetches, with hashing,
\* exactly when the folder has no candidate for the expected name or the
\* candidate's size differs from the size the header declares; with equal
\* sizes it makes no fetch and the filename is the candidate.  After a
\* fetch with hashing the filename is <base>-<8 hex characters>.<ext>.
C13_GenericCache ==
    /\ [][\A t \in DOMAIN tasks :
            (BodyStarts(t) /\ IsGeneric(tasks[t].entry))
              => LET e == tasks[t].entry
                     base == Basename(config[e].expected_filename)
                 IN  IF Candidates(base) = {}
                     THEN /\ tasks'[t].pc = "fetch" /\ tasks'[t].hash
                          /\ fetch_calls'[e] = fetch_calls[e] + 1
                          /\ header_calls' = header_calls
                     ELSE /\ tasks'[t].pc = "header"
                          /\ tasks'[t].cand \in Candidates(base)
                          /\ fetch_calls' = fetch_calls]_vars
    /\ [][\A t \in DOMAIN tasks :
            (/\ Runs(t, "headed") /\ tasks'[t] # tasks[t]
             /\ tasks[t].result.kind \notin HeaderFailures)
              => LET e == tasks[t].entry
                     cand == tasks[t].cand
                 IN  IF GetSize(files[cand]) # ProbedSize(tasks[t].result.kind)
                     THEN /\ tasks'[t].pc = "fetch" /\ tasks'[t].hash
                          /\ fetch_calls'[e] = fetch_calls[e] + 1
                     ELSE /\ tasks'[t].outcome = "ready"
                          /\ fetch_calls' = fetch_calls
                          /\ filename'[e] = PathJoin(DownloadFolder, cand)]_vars
    /\ [][\A t \in DOMAIN tasks :
            (/\ Runs(t, "fetched") /\ tasks'[t] # tasks[t]
             /\ tasks[t].hash /\ tasks[t].result.kind = "ok")
              => LET e == tasks[t].entry
                 IN  /\ fetch_calls' = fetch_calls
                     /\ filename'[e].dir = DownloadFolder
                     /\ HasHashedForm(filename'[e].name, PreparedName(e))]_vars

\* A generic entry whose cached candidate had another size than the header
\* declared: one header request, one fetch, and the entry READY on a second
\* hashed file beside the candidate.
C13_Witness ==
    /\ config["e1"].kind = "URL"
    /\ IsGeneric("e1")
    /\ header_calls["e1"] = 1
    /\ fetch_calls["e1"] = 1
    /\ IsDownloaded("e1")
    /\ filename["e1"] = PathJoin(DownloadFolder, HashedName(GenericName, Md5Sum("c1")))
    /\ {HashedName(GenericName, Md5Sum(c)) : c \in Contents} \subseteq ListDir
    /\ GenericName \notin ListDir
    /\ \E t \in DOMAIN tasks : tasks[t].outcome = "ready"

\* C14: a stream entry constructed with direct=True is READY from its
\* construction on, its filename the url it was given; no get_ready_future
\* call on it registers a future, schedules a download or reaches
\* extract_info(download=False).
C14_DirectIsReady ==
    \A e \in Alive :
        (config[e].kind = "Stream" /\ config[e].direct)
          => /\ IsDownloaded(e)
             /\ filename[e] = config[e].url
             /\ probe_calls[e] = 0
             /\ waiting_futures[e] = << >>
             /\ \A t \in DOMAIN tasks : tasks[t].entry # e
             /\ \A f \in DOMAIN futures :
                   futures[f].entry = e
                     => futures[f].state = "result" /\ futures[f].value = e

\* A direct stream entry after three get_ready_future calls.
C14_Witness ==
    /\ config["e1"].kind = "Stream"
    /\ config["e1"].direct
    /\ Len(futures) = MaxCalls
    /\ \A f \in DOMAIN futures : futures[f].entry = "e1" /\ futures[f].state = "result"

\* C15: when the header request fails (it raises, returns None, or returns
\* text that is no integer) the routine goes on with the size comparison
\* against 0: a candidate of another size is fetched again, an empty one is
\* reused; the step resolves no future with an exception.
C15_ProbeFailureAbsorbed ==
    [][\A t \in DOMAIN tasks :
          (/\ Runs(t, "headed") /\ tasks'[t] # tasks[t]
           /\ tasks[t].result.kind \in HeaderFailures)
            => LET e == tasks[t].entry
                   cand == tasks[t].cand
               IN  /\ \A f \in DOMAIN futures :
                         futures'[f].state = "exception" => futures[f].state = "exception"
                   /\ IF GetSize(files[cand]) # 0
                      THEN /\ tasks'[t].pc = "fetch"
                           /\ futures' = futures
                      ELSE /\ tasks'[t].outcome = "ready"
                           /\ filename'[e] = PathJoin(DownloadFolder, cand)
                           /\ \A f \in Range(waiting_futures[e]) :
                                 futures[f].state = "pending"
                                   => futures'[f].state = "result"]_vars

\* A routine whose header request failed ended READY on its empty
\* candidate, without a fetch, and resolved its future with the entry.
C15_Witness ==
    \E t \in DOMAIN tasks :
        /\ header_failed[tasks[t].entry]
        /\ header_calls[tasks[t].entry] = 1
        /\ tasks[t].outcome = "ready"
        /\ fetch_calls[tasks[t].entry] = 0
        /\ IsDownloaded(tasks[t].entry)
        /\ GetSize(files[filename[tasks[t].entry].name]) = 0
        /\ \E f \in DOMAIN futures :
              futures[f].entry = tasks[t].entry /\ futures[f].state = "result"

\* Task t's routine on a URL entry ends in this step past the guard.
URLRoutineEnds(t) ==
    /\ t \in DOMAIN tasks'
    /\ config[tasks[t].entry].kind = "URL"
    /\ tasks[t].pc # "done"
    /\ tasks'[t].pc = "done"
    /\ tasks'[t].outcome # "skipped"

\* C16: when cb raises on a registered future (the future was done already)
\* the notification goes on: every registered future still pending gets the
\* entry when the download succeeded and the routine's exception when it
\* failed, a future done before keeps what it held, the registry is
\* emptied, and the routine's outcome is what it was without the raise.
C16_CallbackFailureAbsorbed ==
    [][\A t \in DOMAIN tasks :
          URLRoutineEnds(t)
            => LET e == tasks[t].entry
                   ok == tasks'[t].outcome = "ready"
               IN  /\ \A f \in Range(waiting_futures[e]) :
                         IF futures[f].state = "pending"
                         THEN /\ futures'[f].state = IF ok THEN "result" ELSE "exception"
                              /\ futures'[f].value = IF ok THEN e ELSE tasks'[t].outcome
                         ELSE /\ futures'[f].state = futures[f].state
                              /\ futures'[f].value = futures[f].value
                   /\ waiting_futures'[e] = << >>
                   /\ ~is_downloading'[e]
                   /\ ok => IsDownloaded(e)']_vars

\* A successful routine notified two registered futures: on the first,
\* completed by its holder before, cb raised; the second, registered after
\* it, still got the entry.
C16_Witness ==
    \E f \in DOMAIN futures, g \in DOMAIN futures :
        /\ f < g
        /\ futures[f].entry = futures[g].entry
        /\ futures[f].state = "result" /\ futures[f].value = "holder"
        /\ futures[f].calls = 1
        /\ futures[g].state = "result" /\ futures[g].value = futures[g].entry
        /\ futures[g].calls = 1
        /\ \E t \in DOMAIN tasks : tasks[t].outcome = "ready"

\* Task t resumes after a fetch with hashing that returned the info of the
\* file the extractor wrote, and unlink / rename do not fail for a reason
\* of the operating system.
HashedFetchResumes(t) ==
    /\ Runs(t, "fetched")
    /\ tasks'[t] # tasks[t]
    /\ tasks[t].hash
    /\ tasks[t].result.kind = "ok"
    /\ tasks'[t].outcome # "OSError"

\* C17: after a successful fetch with hashing the routine ends READY, the
\* filename is the hashed path, a file is at the hashed path and none at
\* the unhashed path: a file already at the hashed path is kept and the
\* fetched one deleted, else the fetched one is renamed.  Also with two
\* entries of one resource fetching at the same time.
C17_HashedFileInPlace ==
    [][\A t \in DOMAIN tasks :
          HashedFetchResumes(t)
            => LET e == tasks[t].entry
                   unhashed == tasks[t].result.name
                   hashed == filename'[e].name
               IN  /\ tasks'[t].outcome = "ready"
                   /\ filename'[e].dir = DownloadFolder
                   /\ HasHashedForm(hashed, unhashed)
                   /\ hashed \in DOMAIN files'
                   /\ unhashed \notin DOMAIN files'
                   /\ files'[hashed] = IF hashed \in DOMAIN files
                                       THEN files[hashed]
                                       ELSE files[unhashed]]_vars

\* C18: a URL entry that is READY stays READY with the same filename at
\* every later step, and no task runs the body of _download on it, also
\* not a task that get_ready_future scheduled during the earlier download.
C18_ReadyStaysReady ==
    /\ [][\A e \in Ids :
            (config[e].kind = "URL" /\ IsDownloaded(e))
              => (~is_downloading'[e] /\ filename'[e] = filename[e])]_vars
    /\ [][\A t \in DOMAIN tasks :
            BodyStarts(t) => ~IsDownloaded(tasks[t].entry)]_vars

\* C19: while a download routine of an entry, of either variant, has
\* started and not ended, the entry's flag is set and is_downloaded is
\* false.
C19_DownloadingWhileInFlight ==
    \A e \in Ids :
        ActiveRoutines(e) # {} => (is_downloading[e] /\ ~IsDownloaded(e))

\* The same for URL entries alone.
URLDownloadingWhileInFlight ==
    \A e \in Ids :
        (config[e].kind = "URL" /\ ActiveRoutines(e) # {})
          => (is_downloading[e] /\ ~IsDownloaded(e))

====
